---------------------------- MODULE Spec2Model ----------------------------
(***************************************************************************)
(* Model of the WeatherGPT backend (backend/main.py, backend/model.py):    *)
(* the request handlers /api/weather, /api/chat, /api/predict and          *)
(* /api/health, the weather client, the chat formatter and the predictor   *)
(* (lazy construction, feature preparation, inference, denormalization).   *)
(*                                                                         *)
(* Numbers.  Python floats are modelled in fixed point: every physical     *)
(* quantity of the hourly payload is an integer number of thousandths      *)
(* (20.0 degrees C is 20000).  A normalized value is the exact rational    *)
(* <<num, den>> with den > 0.  Raw network outputs are thousandths, the    *)
(* denormalized forecast is in units of 10^-5.  float32 rounding is not    *)
(* modelled.  An optional value (Python None or a value) is a sequence of  *)
(* length at most one: <<>> is None, <<v>> is the value v.                 *)
(***************************************************************************)
EXTENDS Integers, Sequences, FiniteSets, TLC

VARIABLES
    files,           \* artifacts beside model.py: config, weights, scaler
    GEMINI_API_KEY,  \* main.py:37, the stripped environment credential
    predictor,       \* model.py:300, the global predictor (<<>> is None)
    clock,           \* the wall clock read by datetime.now()
    request,         \* the request handled last
    upstream,        \* what the external services did during that request
    calls,           \* outbound calls made while handling it, in order
    response,        \* the HTTP response it was answered with
    input_array,     \* prepare_input's raw rows of that request (model.py:188)
    input_tensor,    \* prepare_input's normalized rows (model.py:215)
    output,          \* the network's raw output of that request (model.py:246)
    repeated,        \* the request repeats the previous one (same body, same payload)
    rng,             \* the state of torch's random generator
    constructions,   \* runs of WeatherPredictor() during that request, in order
    constructed,     \* how many WeatherPredictor instances were constructed so far
    prediction       \* what predictor.predict returned in that request (main.py:225)

vars == <<files, GEMINI_API_KEY, predictor, clock, request, upstream, calls,
          response, input_array, input_tensor, output, repeated, rng,
          constructions, constructed, prediction>>

----------------------------------------------------------------------------
(* Bounds of the model.                                                    *)

\* hourly payloads with 0..MaxShort readings are enumerated below the window
MaxShort == 2
\* and payloads with up to MaxExtra readings more than the window
MaxExtra == 1
\* the wall clock is followed up to MaxClock
MaxClock == 1
\* the state of torch's random generator is followed modulo GeneratorPeriod
GeneratorPeriod == 2
\* constructed instances are counted up to MaxConstructed
MaxConstructed == 2

(* Program constants.                                                      *)

\* model.py:124 and 184: the input window, in hours
InputWindow == 168
\* model.py:271: config['output_window'], 72 hours in the shipped configuration
OutputWindow == 72
\* model.py:57 and 274-276: config['output_dim'], the three forecast channels
OutputDim == 3
\* main.py:99: at most 7 days are formatted for the chat context
ForecastDays == 7

None == <<>>
Some(v) == <<v>>
IsNone(x) == x = <<>>
Val(x) == x[1]
Min(a, b) == IF a < b THEN a ELSE b

\* The element of a singleton set.  The({ e(v) : v \in {d} }) is e with v
\* bound to the value of d, computed once: a local variable of the code.
The(S) == CHOOSE r \in S : TRUE

----------------------------------------------------------------------------
(* The environment: deployments, request bodies, upstream payloads.        *)

\* A persisted MinMaxScaler (create_scaler.py:30-34): per-channel data_min_
\* and data_max_ in hundredths.
PersistedScaler == [data_min |-> <<-1000, 0, 0>>, data_max |-> <<6000, 10000, 12000>>]

\* The artifacts on disk and the credential in the environment.  They are
\* fixed for the life of the process.
Deployments ==
    { [config |-> TRUE,  weights |-> TRUE,  scaler |-> Some(PersistedScaler), key |-> "k"],
      [config |-> TRUE,  weights |-> TRUE,  scaler |-> None,                  key |-> ""],
      [config |-> TRUE,  weights |-> FALSE, scaler |-> Some(PersistedScaler), key |-> "k"],
      [config |-> FALSE, weights |-> FALSE, scaler |-> None,                  key |-> " "],
      [config |-> FALSE, weights |-> TRUE,  scaler |-> Some(PersistedScaler), key |-> "k"] }

\* main.py:37: os.getenv("GEMINI_API_KEY", "").strip()
Strip(k) == IF k = " " THEN "" ELSE k

\* A client that is built whatever the key is.
ClientUnconditional == Some("genai.Client")

\* main.py:42-44: the LLM client exists iff the stripped key is non-empty
client == IF GEMINI_API_KEY /= "" /\ Len(GEMINI_API_KEY) > 0 THEN Some("genai.Client") ELSE None

\* main.py:47-50: LocationRequest bodies (valid ones)
Locations ==
    { [latitude |-> 40, longitude |-> -74, city |-> Some("New York")],
      [latitude |-> 0,  longitude |-> 0,   city |-> None] }

\* main.py:52-56: ChatRequest bodies; weather_context is absent, {} or a dict
ChatRequests ==
    { [message |-> "umbrella?", latitude |-> 40, longitude |-> -74, weather_context |-> wc] :
        wc \in {None, Some("empty"), Some("dict")} }

\* The `current` field of a forecast payload is absent, an object or null;
\* when it is an object, it is this one.
CurrentObject == [temperature_2m |-> 21500, relative_humidity_2m |-> 40000,
                  wind_speed_10m |-> 12000, apparent_temperature |-> 20000]

\* The numbers of hourly readings enumerated.
HourCounts == (0 .. MaxShort) \cup ((InputWindow - 1) .. (InputWindow + MaxExtra))

\* A payload that follows the forecast API's schema, with n hourly readings.
SchemaPayload(n) ==
    [current |-> "object",
     hourly  |-> [kind |-> "object", n |-> n, keys |-> "all", aligned |-> TRUE],
     daily   |-> [kind |-> "object", days |-> ForecastDays, complete |-> TRUE]]

\* Payloads that are valid JSON but leave the schema in one place.
OffSchemaPayloads ==
    { \* the empty object {}
      [current |-> "absent",
       hourly  |-> [kind |-> "absent", n |-> 0, keys |-> "all", aligned |-> TRUE],
       daily   |-> [kind |-> "absent", days |-> 0, complete |-> TRUE]],
      \* hourly is a list of records instead of an object of arrays
      [current |-> "object",
       hourly  |-> [kind |-> "list", n |-> 2, keys |-> "all", aligned |-> TRUE],
       daily   |-> [kind |-> "object", days |-> ForecastDays, complete |-> TRUE]],
      \* hourly carries only the time array
      [current |-> "object",
       hourly  |-> [kind |-> "object", n |-> 2, keys |-> "time", aligned |-> TRUE],
       daily   |-> [kind |-> "object", days |-> ForecastDays, complete |-> TRUE]],
      \* the value arrays are shorter than the time array
      [current |-> "object",
       hourly  |-> [kind |-> "object", n |-> 2, keys |-> "all", aligned |-> FALSE],
       daily   |-> [kind |-> "object", days |-> ForecastDays, complete |-> TRUE]],
      \* current is null
      [current |-> "null",
       hourly  |-> [kind |-> "object", n |-> 2, keys |-> "all", aligned |-> TRUE],
       daily   |-> [kind |-> "object", days |-> ForecastDays, complete |-> TRUE]],
      \* daily has `time` but lacks temperature_2m_max
      [current |-> "object",
       hourly  |-> [kind |-> "object", n |-> 2, keys |-> "all", aligned |-> TRUE],
       daily   |-> [kind |-> "object", days |-> 3, complete |-> FALSE]] }

Payloads == { SchemaPayload(n) : n \in HourCounts } \cup OffSchemaPayloads

NoPayload == [current |-> "absent",
              hourly  |-> [kind |-> "absent", n |-> 0, keys |-> "all", aligned |-> TRUE],
              daily   |-> [kind |-> "absent", days |-> 0, complete |-> TRUE]]

\* What the forecast API does with one GET: answers 2xx with a JSON payload,
\* answers non-2xx, fails in transport, or answers 2xx with a body that is
\* not JSON.
FetchOutcomes ==
    { [outcome |-> "ok", payload |-> p] : p \in Payloads } \cup
    { [outcome |-> o, payload |-> NoPayload] : o \in {"non2xx", "transport", "badjson"} }

\* What the LLM API does with one generate_content call.
LlmOutcomes == {"ok", "fail"}

\* The hourly arrays of a schema payload.  Reading i (from 0) of a key is the
\* entry i, cyclically, of the key's array below; entries are thousandths,
\* <<>> is a JSON null.
TemperatureArray ==
    << Some(20000), Some(-25000), Some(-20000), Some(0), Some(50000), Some(55000), None >>
HumidityArray ==
    << Some(50000), Some(0), Some(100000), None, Some(120000) >>
ApparentArray ==
    << None, Some(18000), Some(-30000), Some(35000), Some(-40000), Some(40000) >>
WindArray ==
    << Some(10000), Some(0), Some(50000), Some(60000), None, Some(25000), Some(-1000), Some(5000) >>
PressureArray ==
    << Some(1013000), Some(950000), Some(1050000), Some(940000), Some(1060000), None,
       Some(1000000), Some(990000), Some(1020000), Some(1030000), Some(970000) >>
CloudArray ==
    << Some(50000), Some(0), Some(100000), None >>

HourlyArray(key) ==
    CASE key = "temperature_2m"       -> TemperatureArray
      [] key = "relative_humidity_2m" -> HumidityArray
      [] key = "apparent_temperature" -> ApparentArray
      [] key = "wind_speed_10m"       -> WindArray
      [] key = "pressure_msl"         -> PressureArray
      [] key = "cloud_cover"          -> CloudArray

----------------------------------------------------------------------------
(* Weather client (main.py:63-79).                                         *)

\* A client that tries the GET a second time when the first attempt fails.
fetch_with_retry(u) ==
    [calls  |-> IF u.outcome /= "ok" THEN <<"GET", "GET">> ELSE <<"GET">>,
     raised |-> u.outcome /= "ok",
     status |-> 500,
     detail |-> <<"Failed to fetch weather data", u.outcome>>,
     value  |-> u.payload]

\* fetch_weather_data: one requests.get; raise_for_status and json() inside
\* the try; any exception becomes HTTPException(500, "Failed to fetch ...").
fetch_weather_data(u) ==
    [calls  |-> <<"GET">>,
     raised |-> u.outcome /= "ok",
     status |-> 500,
     detail |-> <<"Failed to fetch weather data", u.outcome>>,
     value  |-> u.payload]

----------------------------------------------------------------------------
(* Chat formatter (main.py:81-106).                                        *)

\* format_weather_for_chat: the current block renders from current.get(...)
\* (missing fields print as N/A; a null current has no .get and raises
\* AttributeError); each of the first 7 days indexes daily['time'],
\* ['temperature_2m_max'], ['temperature_2m_min'] and ['precipitation_sum'],
\* which raises KeyError when daily has days but lacks one of those arrays.
format_weather_for_chat(weather_data) ==
    LET daily == weather_data.daily
        lines == IF daily.kind = "object" THEN Min(ForecastDays, daily.days) ELSE 0
    IN  [raised |-> weather_data.current = "null" \/ (lines > 0 /\ ~daily.complete),
         error  |-> IF weather_data.current = "null" THEN "AttributeError" ELSE "KeyError",
         value  |-> [current |-> weather_data.current, days |-> lines]]

----------------------------------------------------------------------------
(* Predictor: feature preparation (model.py:110-223).                      *)

\* hourly.get(key, [None] * num_hours)[i], for 0 <= i < num_hours
HourlyGet(hourly, key, i) ==
    IF hourly.keys = "all"
    THEN LET a == HourlyArray(key) IN a[(i % Len(a)) + 1]
    ELSE None

\* model.py:169: 0.611 * exp(17.27 * T / (T + 237.3)), in thousandths of a
\* kPa, tabulated (rounded) at the temperatures the payloads carry.
SaturationVapourPressure(temp) ==
    CASE temp = -25000 -> 80
      [] temp = -20000 -> 125
      [] temp = 0      -> 611
      [] temp = 20000  -> 2339
      [] temp = 50000  -> 12341
      [] temp = 55000  -> 15751

\* model.py:130-133
Temperature(hourly, i) ==
    LET temp == HourlyGet(hourly, "temperature_2m", i)
    IN  IF IsNone(temp) THEN 20000 ELSE Val(temp)

\* model.py:136-139
Humidity(hourly, i) ==
    LET humidity == HourlyGet(hourly, "relative_humidity_2m", i)
    IN  IF IsNone(humidity) THEN 50000 ELSE Val(humidity)

\* model.py:142-146: apparent temperature when supplied; else the proxy
\* temp - (100 - humidity) / 5 when `temp and humidity` is truthy (both
\* non-zero), else 15.0
DewPoint(hourly, i) ==
    LET dew_point == HourlyGet(hourly, "apparent_temperature", i)
        temp      == Temperature(hourly, i)
        humidity  == Humidity(hourly, i)
    IN  IF ~IsNone(dew_point) THEN Val(dew_point)
        ELSE IF temp /= 0 /\ humidity /= 0
             THEN temp - ((100000 - humidity) \div 5)
             ELSE 15000

\* model.py:149-152
WindSpeed(hourly, i) ==
    LET wind == HourlyGet(hourly, "wind_speed_10m", i)
    IN  IF IsNone(wind) THEN 10000 ELSE Val(wind)

\* model.py:155-158
Pressure(hourly, i) ==
    LET pressure == HourlyGet(hourly, "pressure_msl", i)
    IN  IF IsNone(pressure) THEN 1013000 ELSE Val(pressure)

\* model.py:161-164
CloudCover(hourly, i) ==
    LET cloud == HourlyGet(hourly, "cloud_cover", i)
    IN  IF IsNone(cloud) THEN 50000 ELSE Val(cloud)

\* model.py:168-174: svp - (humidity / 100) * svp; temp and humidity are
\* never None here, so the 0.5 default is dead
VapourPressureDeficit(hourly, i) ==
    LET temp     == Temperature(hourly, i)
        humidity == Humidity(hourly, i)
        svp      == SaturationVapourPressure(temp)
        avp      == (humidity * svp) \div 100000
    IN  svp - avp

\* model.py:126-176: the 7 features of hour i (from 0)
Features(hourly, i) ==
    << Temperature(hourly, i), Humidity(hourly, i), DewPoint(hourly, i),
       WindSpeed(hourly, i), Pressure(hourly, i), CloudCover(hourly, i),
       VapourPressureDeficit(hourly, i) >>

\* model.py:182: the padding row when there is no reading at all
DefaultFeatures == << 20000, 50000, 15000, 10000, 1013000, 50000, 500 >>

\* model.py:124: min(168, len(hourly.get('time', [])))
NumHours(hourly) == IF hourly.kind = "object" THEN Min(InputWindow, hourly.n) ELSE 0

\* Padding appended after the readings instead of inserted before them.
PadAtEnd(input_data) ==
    LET pad_value == IF Len(input_data) > 0 THEN input_data[1] ELSE DefaultFeatures
        missing   == IF Len(input_data) < InputWindow THEN InputWindow - Len(input_data) ELSE 0
    IN  input_data \o [r \in 1 .. missing |-> pad_value]

\* model.py:178-185: insert copies of the first row at the front until the
\* list has 168 rows
PadInput(input_data) ==
    LET pad_value == IF Len(input_data) > 0 THEN input_data[1] ELSE DefaultFeatures
        missing   == IF Len(input_data) < InputWindow THEN InputWindow - Len(input_data) ELSE 0
    IN  [r \in 1 .. missing |-> pad_value] \o input_data

\* The rescaled value with the clip left out.
Unclipped(num, den) == <<num, den>>

\* model.py:215: np.clip(v, 0, 1) of the rational num/den, den > 0
Clip01(num, den) ==
    IF num < 0 THEN <<0, den>> ELSE IF num > den THEN <<den, den>> ELSE <<num, den>>

\* model.py:190-215: the per-channel rescaling, then the clip
NormalizeRow(row) ==
    << Clip01(row[1] - (-20000), 50000 - (-20000)),
       Clip01(row[2], 100000),
       Clip01(row[3] - (-30000), 35000 - (-30000)),
       Clip01(row[4], 50000),
       Clip01(row[5] - 950000, 1050000 - 950000),
       Clip01(row[6], 100000),
       Clip01(row[7], 4000) >>

\* model.py:187-223: the padded rows as the array and, normalized, the tensor
AsTensor(padded) ==
    [raised |-> FALSE, error |-> "",
     array  |-> padded,
     tensor |-> [r \in 1 .. Len(padded) |-> NormalizeRow(padded[r])]]

\* model.py:110-223.  hourly.get on a list raises AttributeError; indexing a
\* value array shorter than the time array raises IndexError.
prepare_input(weather_data) ==
    LET hourly    == weather_data.hourly
        num_hours == NumHours(hourly)
    IN  IF hourly.kind = "list"
        THEN [raised |-> TRUE, error |-> "AttributeError", array |-> <<>>, tensor |-> <<>>]
        ELSE IF num_hours > 0 /\ ~hourly.aligned
        THEN [raised |-> TRUE, error |-> "IndexError", array |-> <<>>, tensor |-> <<>>]
        ELSE The({ AsTensor(PadInput(input_data)) :
                     input_data \in { [k \in 1 .. num_hours |-> Features(hourly, k - 1)] } })

----------------------------------------------------------------------------
(* Predictor: the network (model.py:10-75).                                *)

\* The arithmetic of the transformer is not modelled.  What is kept: the
\* loaded weights are fixed, the output is 72 x 3, it is a function of the
\* input tensor and, through the dropout layers, of the random generator.
\* Raw outputs are thousandths and range below 0 and above 1.
StateDict == << -2000, 0, 500, 1000, 3000, -500, 250, 1500, 100, -3000, 2000 >>

\* nn.Dropout (model.py:13, 28, 46, 56) in training mode: it draws from
\* torch's random generator, which decides what is zeroed, and so advances it.
DropoutTraining(v, generator) ==
    [value |-> IF generator % 2 = 0 THEN 0 ELSE v, draws |-> 1]

\* nn.Dropout after self.model.eval() (model.py:95): the identity; nothing
\* is drawn.
Dropout(v, generator) == [value |-> v, draws |-> 0]

\* What the forward pass reads of its input: the first and the last row.
Digest(x) ==
    LET first == x[1]
        last  == x[Len(x)]
    IN  first[1][1] + first[2][1] + first[3][1] + first[7][1] +
        last[1][1] + last[2][1] + last[4][1] + last[5][1] + Len(x)

\* model.py:60-75 and 242-246: output[i][c], 72 rows of 3 channels, and the
\* number of draws the pass made from the generator
Forward(x, generator) ==
    LET h == Dropout(Digest(x), generator)
    IN  [output |-> [i \in 1 .. OutputWindow |->
                       [c \in 1 .. OutputDim |->
                          StateDict[((h.value + OutputDim * i + c) % Len(StateDict)) + 1]]],
         draws  |-> h.draws]

----------------------------------------------------------------------------
(* Predictor: denormalization and clamping (model.py:248-265).             *)

\* model.py:251: MinMaxScaler.inverse_transform, X * (data_max - data_min) +
\* data_min per channel; thousandths times hundredths give units of 10^-5
InverseTransform(scaler, row) ==
    [c \in 1 .. OutputDim |->
        row[c] * (scaler.data_max[c] - scaler.data_min[c]) + scaler.data_min[c] * 1000]

\* model.py:254-260: the hardcoded training ranges
FallbackDenormalize(row) ==
    << row[1] * (4170 - 710) + 710 * 1000,
       row[2] * (10000 - 600) + 600 * 1000,
       row[3] * (4330 - 0) + 0 * 1000 >>

\* np.clip(v, lo, hi)
Clip(v, lo, hi) == IF v < lo THEN lo ELSE IF v > hi THEN hi ELSE v

\* The denormalized row with the clamp left out.
NoClampRow(row) == row

\* model.py:263-265: temperature [-50, 50], humidity [0, 100], wind [0, 100]
ClampRow(row) ==
    << Clip(row[1], -50 * 100000, 50 * 100000),
       Clip(row[2], 0, 100 * 100000),
       Clip(row[3], 0, 100 * 100000) >>

\* model.py:249-267
Denormalize(scaler, predictions) ==
    [i \in 1 .. Len(predictions) |->
        ClampRow(IF ~IsNone(scaler)
                 THEN InverseTransform(Val(scaler), predictions[i])
                 ELSE FallbackDenormalize(predictions[i]))]

\* predictions[lo..hi, c].sum()
RECURSIVE ColumnSum(_, _, _, _)
ColumnSum(rows, c, lo, hi) ==
    IF lo > hi THEN 0
    ELSE IF lo = hi THEN rows[lo][c]
    ELSE ColumnSum(rows, c, lo, (lo + hi) \div 2) + ColumnSum(rows, c, ((lo + hi) \div 2) + 1, hi)

\* predictions[lo..hi, c].max(), lo <= hi
RECURSIVE ColumnMax(_, _, _, _)
ColumnMax(rows, c, lo, hi) ==
    IF lo = hi THEN rows[lo][c]
    ELSE LET left  == ColumnMax(rows, c, lo, (lo + hi) \div 2)
             right == ColumnMax(rows, c, ((lo + hi) \div 2) + 1, hi)
         IN  IF left > right THEN left ELSE right

\* predictions[lo..hi, c].min(), lo <= hi
RECURSIVE ColumnMin(_, _, _, _)
ColumnMin(rows, c, lo, hi) ==
    IF lo = hi THEN rows[lo][c]
    ELSE LET left  == ColumnMin(rows, c, lo, (lo + hi) \div 2)
             right == ColumnMin(rows, c, ((lo + hi) \div 2) + 1, hi)
         IN  IF left < right THEN left ELSE right

\* model.py:283-289 (the means are truncated to the fixed-point unit)
Summary(predictions) ==
    LET n == Len(predictions)
    IN  [avg_temperature |-> ColumnSum(predictions, 1, 1, n) \div n,
         max_temperature |-> ColumnMax(predictions, 1, 1, n),
         min_temperature |-> ColumnMin(predictions, 1, 1, n),
         avg_humidity    |-> ColumnSum(predictions, 2, 1, n) \div n,
         avg_wind_speed  |-> ColumnSum(predictions, 3, 1, n) \div n]

\* model.py:269-277
HourlyPredictions(predictions) ==
    [i \in 1 .. OutputWindow |->
        [hour |-> i,
         temperature       |-> predictions[i][1],
         relative_humidity |-> predictions[i][2],
         wind_speed        |-> predictions[i][3]]]

\* model.py:267-291: the result of a run, and the locals of the run that
\* the properties read
BuildResult(prepared, forward, predictions) ==
    [result |-> [status |-> "success",
                 predictions |-> [hourly  |-> HourlyPredictions(predictions),
                                  summary |-> Summary(predictions)]],
     array |-> prepared.array, tensor |-> prepared.tensor, output |-> forward.output,
     draws |-> forward.draws]

\* model.py:245-267
Postprocess(self, prepared, forward) ==
    The({ BuildResult(prepared, forward, predictions) :
            predictions \in { Denormalize(self.scaler, forward.output) } })

\* model.py:238-246 and 293-297: an exception of prepare_input is caught
\* and returned as an error status
RunModel(self, prepared, generator) ==
    IF prepared.raised
    THEN [result |-> [status |-> "error", message |-> prepared.error],
          array |-> <<>>, tensor |-> <<>>, output |-> <<>>, draws |-> 0]
    ELSE The({ Postprocess(self, prepared, forward) :
                 forward \in { Forward(prepared.tensor, generator) } })

\* predict without the model_loaded guard: the network runs on whatever
\* weights it was initialized with.
predict_unguarded(self, weather_data, generator) ==
    The({ RunModel(self, prepared, generator) :
            prepared \in { prepare_input(weather_data) } })

\* model.py:225-297.  self is the constructed predictor.
predict(self, weather_data, generator) ==
    IF ~self.model_loaded
    THEN [result |-> [status |-> "error", message |-> "Model not loaded"],
          array |-> <<>>, tensor |-> <<>>, output |-> <<>>, draws |-> 0]
    ELSE The({ RunModel(self, prepared, generator) :
                 prepared \in { prepare_input(weather_data) } })

----------------------------------------------------------------------------
(* Predictor: construction and the global instance (model.py:78-108,       *)
(* 299-306).                                                               *)

\* A constructor that sets model_loaded whether or not the weights exist.
WeatherPredictorAlwaysLoaded(f) ==
    [raised |-> ~f.config,
     error  |-> "FileNotFoundError",
     value  |-> [model_loaded |-> TRUE, scaler |-> f.scaler]]

\* WeatherPredictor.__init__: open(model_config.json) raises when the file
\* is missing; model_loaded is whether the weight file exists; the scaler
\* is loaded when scaler.pkl exists, else None.
WeatherPredictor(f) ==
    [raised |-> ~f.config,
     error  |-> "FileNotFoundError",
     value  |-> [model_loaded |-> f.weights, scaler |-> f.scaler]]

\* get_predictor without the `is None` test: a new instance on every use.
get_predictor_fresh(global, f) ==
    LET made == WeatherPredictor(f)
    IN  IF made.raised
        THEN [raised |-> TRUE, error |-> made.error, global |-> global,
              value |-> made.value, constructions |-> <<"raised">>]
        ELSE [raised |-> FALSE, error |-> "", global |-> Some(made.value),
              value |-> made.value, constructions |-> <<"constructed">>]

\* get_predictor: construct on first use, keep the instance; an exception in
\* the constructor leaves the global None.  constructions lists the runs of
\* the constructor this call made and how each ended.
get_predictor(global, f) ==
    IF IsNone(global)
    THEN LET made == WeatherPredictor(f)
         IN  IF made.raised
             THEN [raised |-> TRUE, error |-> made.error, global |-> None,
                   value |-> made.value, constructions |-> <<"raised">>]
             ELSE [raised |-> FALSE, error |-> "", global |-> Some(made.value),
                   value |-> made.value, constructions |-> <<"constructed">>]
    ELSE [raised |-> FALSE, error |-> "", global |-> global, value |-> Val(global),
          constructions |-> <<>>]


\* The predictors a deployment can construct, and the generator states.
Predictors == { WeatherPredictor([config |-> d.config, weights |-> d.weights,
                                  scaler |-> d.scaler]).value : d \in Deployments }
Generators == 0 .. (GeneratorPeriod - 1)

\* predict, tabulated over the runs the model makes (the same values,
\* computed once).
PredictRuns ==
    [self \in Predictors, weather_data \in Payloads, generator \in Generators |->
        predict(self, weather_data, generator)]

----------------------------------------------------------------------------
(* API layer (main.py:120-264).  A handler is an operator from the request *)
(* and what the outside world does to the HTTP response, the outbound      *)
(* calls made, and the new value of the global predictor.                  *)

\* FastAPI's answer to an HTTPException(status_code, detail)
HttpError(status, detail) == [status |-> status, body |-> [detail |-> detail]]

\* FastAPI's answer to an exception that leaves the handler
Unhandled(error) == [status |-> 500, body |-> [detail |-> <<"Internal Server Error", error>>]]

\* main.py:133: the hours kept of the hourly list
NextHours == 24

\* main.py:120-137.  weather_data.get("hourly", {})[:24] slices whatever
\* hourly is: a list is cut to 24 entries, a dict (the schema's object of
\* arrays, or the {} default) cannot be sliced and raises.
get_weather(location, u, now) ==
    LET fetched      == fetch_weather_data(u)
        weather_data == fetched.value
    IN  IF fetched.raised
        THEN [response |-> HttpError(fetched.status, fetched.detail), calls |-> fetched.calls]
        ELSE IF weather_data.hourly.kind /= "list"
        THEN [response |-> Unhandled("TypeError"), calls |-> fetched.calls]
        ELSE [response |->
                [status |-> 200,
                 body   |-> [success   |-> TRUE,
                             location  |-> location,
                             current   |-> weather_data.current,
                             hourly    |-> [weather_data.hourly EXCEPT !.n = Min(NextHours, @)],
                             daily     |-> weather_data.daily,
                             timestamp |-> now]],
              calls |-> fetched.calls]

\* generate_content outside any try: its exception leaves the handler.
RelayUncaught(llm, context, now) ==
    IF llm = "ok"
    THEN [status |-> 200,
          body   |-> [success         |-> TRUE,
                      response        |-> "response.text",
                      weather_context |-> context,
                      timestamp       |-> now]]
    ELSE Unhandled("Exception")

\* main.py:168-186: generate_content inside the try; an exception becomes
\* a normal response with success False and the error as text.
Relay(llm, context, now) ==
    IF llm = "ok"
    THEN [status |-> 200,
          body   |-> [success         |-> TRUE,
                      response        |-> "response.text",
                      weather_context |-> context,
                      timestamp       |-> now]]
    ELSE [status |-> 200,
          body   |-> [success   |-> FALSE,
                      response  |-> "I encountered an error",
                      timestamp |-> now]]

\* main.py:139-186.  The client check comes first; the fetch and the
\* formatting happen before the try, only generate_content is inside it.
chat_with_weather(req, cl, u, llm, now) ==
    LET need_fetch == IsNone(req.weather_context) \/ req.weather_context = Some("empty")
        fetched    == fetch_weather_data(u)
        formatted  == format_weather_for_chat(fetched.value)
        context    == IF need_fetch THEN Some(formatted.value) ELSE None
        before     == IF need_fetch THEN fetched.calls ELSE <<>>
    IN  IF IsNone(cl)
        THEN [response |->
                [status |-> 200,
                 body   |-> [success  |-> FALSE,
                             message  |-> "Gemini API key not configured",
                             response |-> "static fallback"]],
              calls |-> <<>>]
        ELSE IF need_fetch /\ fetched.raised
        THEN [response |-> HttpError(fetched.status, fetched.detail), calls |-> before]
        ELSE IF need_fetch /\ formatted.raised
        THEN [response |-> Unhandled(formatted.error), calls |-> before]
        ELSE [response |-> Relay(llm, context, now), calls |-> before \o <<"LLM">>]

\* main.py:237-241
CurrentWeather(current) ==
    [temperature |-> current.temperature_2m,
     humidity    |-> current.relative_humidity_2m,
     wind_speed  |-> current.wind_speed_10m]

\* main.py:227-243: the predictor's result with location, timestamp and,
\* when the payload has `current`, current_weather added
Annotate(result, location, weather_data, now) ==
    IF weather_data.current = "object"
    THEN result @@ [location |-> location, timestamp |-> now,
                    current_weather |-> CurrentWeather(CurrentObject)]
    ELSE result @@ [location |-> location, timestamp |-> now]

\* main.py:225-246: after predict.  weather_data["current"].get raises
\* AttributeError on a null current, which the except re-raises as
\* HTTPException(500).
Predicted(run, location, weather_data, now, made, global) ==
    [response |-> IF weather_data.current = "null"
                  THEN HttpError(500, <<"Prediction error", "AttributeError">>)
                  ELSE [status |-> 200,
                        body   |-> Annotate(run.result, location, weather_data, now)],
     calls    |-> made,
     global   |-> global,
     run      |-> [array |-> run.array, tensor |-> run.tensor, output |-> run.output,
                   draws |-> run.draws]]

\* main.py:214-246.  Everything is inside the try; any exception, the
\* fetch's HTTPException included, is re-raised as HTTPException(500,
\* "Prediction error: ...").
predict_with_transformer(location, global, f, u, now, generator) ==
    LET fetched == fetch_weather_data(u)
        got     == get_predictor(global, f)
        nothing == [array |-> <<>>, tensor |-> <<>>, output |-> <<>>, draws |-> 0]
    IN  IF fetched.raised
        THEN [response |-> HttpError(500, <<"Prediction error", "500">> \o fetched.detail),
              calls |-> fetched.calls, global |-> global, run |-> nothing,
              constructions |-> <<>>, predictions |-> None]
        ELSE IF got.raised
        THEN [response |-> HttpError(500, <<"Prediction error", got.error>>),
              calls |-> fetched.calls, global |-> got.global, run |-> nothing,
              constructions |-> got.constructions, predictions |-> None]
        ELSE The({ Predicted(run, location, fetched.value, now, fetched.calls, got.global)
                     @@ [constructions |-> got.constructions,
                         predictions   |-> Some(run.result)] :
                     run \in { PredictRuns[got.value, fetched.value, generator] } })

\* main.py:248-264.  The bare except turns a failed construction into
\* model_loaded False.
health_check(global, f, key, now) ==
    LET got == get_predictor(global, f)
    IN  [response |->
            [status |-> 200,
             body   |-> [status            |-> "healthy",
                         timestamp         |-> now,
                         gemini_configured |-> key /= "",
                         model_loaded      |-> IF got.raised THEN FALSE ELSE got.value.model_loaded]],
         calls  |-> <<>>,
         global |-> got.global,
         constructions |-> got.constructions]

----------------------------------------------------------------------------
(* The state machine.                                                      *)

NoBody == [none |-> TRUE]

\* What the outside world did during a request, as far as the handler asked.
Consumed(made, u, llm) ==
    [fetch |-> IF \E k \in 1 .. Len(made) : made[k] = "GET" THEN Some(u) ELSE None,
     llm   |-> IF \E k \in 1 .. Len(made) : made[k] = "LLM" THEN Some(llm) ELSE None]

\* The count of instances after the constructor runs of a request.
Counted(before, runs) ==
    Min(before + Cardinality({ k \in 1 .. Len(runs) : runs[k] = "constructed" }),
        MaxConstructed)

Init ==
    \E d \in Deployments :
        /\ files = [config |-> d.config, weights |-> d.weights, scaler |-> d.scaler]
        /\ GEMINI_API_KEY = Strip(d.key)
        /\ predictor = None
        /\ clock = 0
        /\ request = [endpoint |-> "none", body |-> NoBody]
        /\ upstream = [fetch |-> None, llm |-> None]
        /\ calls = <<>>
        /\ response = [status |-> 0, body |-> NoBody]
        /\ input_array = <<>>
        /\ input_tensor = <<>>
        /\ output = <<>>
        /\ repeated = FALSE
        /\ rng = 0
        /\ constructions = <<>>
        /\ constructed = 0
        /\ prediction = None

\* Time passes between requests.
Tick ==
    /\ clock < MaxClock
    /\ clock' = clock + 1
    /\ UNCHANGED <<files, GEMINI_API_KEY, predictor, request, upstream, calls,
                   response, input_array, input_tensor, output, repeated, rng,
          constructions, constructed, prediction>>

\* POST /api/weather
GetWeather ==
    \E location \in Locations, u \in FetchOutcomes :
        LET done == get_weather(location, u, clock)
        IN  /\ request' = [endpoint |-> "weather", body |-> location]
            /\ upstream' = Consumed(done.calls, u, "ok")
            /\ calls' = done.calls
            /\ response' = done.response
            /\ input_array' = <<>>
            /\ input_tensor' = <<>>
            /\ output' = <<>>
            /\ repeated' = FALSE
            /\ constructions' = <<>>
            /\ prediction' = None
            /\ UNCHANGED <<files, GEMINI_API_KEY, predictor, clock, rng, constructed>>

\* POST /api/chat
ChatWithWeather ==
    \E req \in ChatRequests, u \in FetchOutcomes, llm \in LlmOutcomes :
        LET done == chat_with_weather(req, client, u, llm, clock)
        IN  /\ request' = [endpoint |-> "chat", body |-> req]
            /\ upstream' = Consumed(done.calls, u, llm)
            /\ calls' = done.calls
            /\ response' = done.response
            /\ input_array' = <<>>
            /\ input_tensor' = <<>>
            /\ output' = <<>>
            /\ repeated' = FALSE
            /\ constructions' = <<>>
            /\ prediction' = None
            /\ UNCHANGED <<files, GEMINI_API_KEY, predictor, clock, rng, constructed>>

\* POST /api/predict
PredictWithTransformer ==
    \E location \in Locations, u \in FetchOutcomes :
        LET done == predict_with_transformer(location, predictor, files, u, clock, rng)
        IN  /\ request' = [endpoint |-> "predict", body |-> location]
            /\ upstream' = Consumed(done.calls, u, "ok")
            /\ calls' = done.calls
            /\ response' = done.response
            /\ predictor' = done.global
            /\ input_array' = done.run.array
            /\ input_tensor' = done.run.tensor
            /\ output' = done.run.output
            /\ repeated' = (/\ request.endpoint = "predict"
                            /\ request.body = location
                            /\ u.outcome = "ok"
                            /\ upstream.fetch = Some(u))
            /\ rng' = (rng + done.run.draws) % GeneratorPeriod
            /\ constructions' = done.constructions
            /\ constructed' = Counted(constructed, done.constructions)
            /\ prediction' = done.predictions
            /\ UNCHANGED <<files, GEMINI_API_KEY, clock>>

\* GET /api/health
HealthCheck ==
    LET done == health_check(predictor, files, GEMINI_API_KEY, clock)
    IN  /\ request' = [endpoint |-> "health", body |-> NoBody]
        /\ upstream' = Consumed(done.calls, NoPayload, "ok")
        /\ calls' = done.calls
        /\ response' = done.response
        /\ predictor' = done.global
        /\ input_array' = <<>>
        /\ input_tensor' = <<>>
        /\ output' = <<>>
        /\ repeated' = FALSE
        /\ constructions' = done.constructions
        /\ constructed' = Counted(constructed, done.constructions)
        /\ prediction' = None
        /\ UNCHANGED <<files, GEMINI_API_KEY, clock, rng>>

Next == Tick \/ GetWeather \/ ChatWithWeather \/ PredictWithTransformer \/ HealthCheck

Spec == Init /\ [][Next]_vars


----------------------------------------------------------------------------
(* Properties.  They read the request handled last: its endpoint, what the *)
(* outside world did, the calls made, and the response.                    *)

Endpoint == request.endpoint

\* the handler issued the weather GET, and how it ended
FetchOk     == upstream.fetch /= None /\ Val(upstream.fetch).outcome = "ok"
FetchFailed == upstream.fetch /= None /\ Val(upstream.fetch).outcome /= "ok"
PayloadSeen == Val(upstream.fetch).payload

\* the number of readings of an hourly payload
Readings(hourly) == IF hourly.kind = "object" THEN hourly.n ELSE 0

\* the number of GET attempts among the calls
Gets == Cardinality({ k \in 1 .. Len(calls) : calls[k] = "GET" })

\* C1: whenever the fetch succeeds with a payload whose hourly field is an
\* object of arrays, POST /api/weather answers with a success response
\* carrying current, hourly and daily; it never ends in an error.
C1_WeatherAnswersSchemaPayload ==
    (Endpoint = "weather" /\ FetchOk /\ PayloadSeen.hourly.kind = "object")
        => /\ response.status = 200
           /\ response.body.success
           /\ response.body.current = PayloadSeen.current
           /\ response.body.daily = PayloadSeen.daily

\* C2 as stated: with the weight file absent, every POST /api/predict is
\* answered with HTTP 200 and a body of status "error".
C2_EveryPredictIsStructuredError ==
    (Endpoint = "predict" /\ ~files.weights)
        => (response.status = 200 /\ response.body.status = "error")

\* C2 amended: with the weight file absent and the configuration file
\* present, a POST /api/predict whose weather fetch succeeds with a payload
\* whose current field is absent or an object is answered with HTTP 200 and
\* the body {status "error", message "Model not loaded"}; one whose fetch
\* fails is answered with HTTP 500.
C2_NotLoadedIsStructuredError ==
    (Endpoint = "predict" /\ ~files.weights)
        => /\ (files.config /\ FetchOk /\ PayloadSeen.current /= "null")
                => /\ response.status = 200
                   /\ response.body.status = "error"
                   /\ response.body.message = "Model not loaded"
           /\ FetchFailed => response.status = 500

C2_Witness ==
    /\ Endpoint = "predict" /\ ~files.weights /\ files.config /\ FetchOk
    /\ response.status = 200
    /\ response.body.status = "error"

\* C3: POST /api/chat with no credential configured returns the static
\* fallback in a normal response and makes no outbound call, neither the
\* weather GET nor the LLM request.
C3_NoCredentialNoCalls ==
    (Endpoint = "chat" /\ GEMINI_API_KEY = "")
        => /\ response.status = 200
           /\ response.body.response = "static fallback"
           /\ calls = <<>>
           /\ upstream.fetch = None
           /\ upstream.llm = None

C3_Witness ==
    /\ Endpoint = "chat" /\ GEMINI_API_KEY = ""
    /\ IsNone(request.body.weather_context)
    /\ response.body.response = "static fallback"

\* the formatting of the fetched payload failed
FormatFailed == FetchOk /\ format_weather_for_chat(PayloadSeen).raised

\* C4 as stated: in POST /api/chat with a credential, a failure of the
\* weather fetch, of the formatting or of the LLM call is returned in a
\* normal response with success false; none leaves the handler as an HTTP
\* error.
C4_EveryFailureIsCaught ==
    (Endpoint = "chat" /\ GEMINI_API_KEY /= "")
        => /\ response.status = 200
           /\ (FetchFailed \/ FormatFailed \/ upstream.llm = Some("fail"))
                => response.body.success = FALSE

\* C4 amended: in POST /api/chat with a credential, a failure of the LLM
\* call is caught and returned as a textual error in a normal response with
\* success false; a failure of the weather fetch or of the formatting leaves
\* the handler as an HTTP 500 before the LLM is called.
C4_OnlyLlmFailureIsCaught ==
    (Endpoint = "chat" /\ GEMINI_API_KEY /= "")
        => /\ upstream.llm = Some("fail")
                => /\ response.status = 200
                   /\ response.body.success = FALSE
                   /\ response.body.response = "I encountered an error"
           /\ (FetchFailed \/ FormatFailed)
                => /\ response.status = 500
                   /\ upstream.llm = None

C4_Witness ==
    /\ Endpoint = "chat" /\ GEMINI_API_KEY /= ""
    /\ FetchOk
    /\ upstream.llm = Some("fail")
    /\ response.status = 200
    /\ response.body.success = FALSE

\* C5: when the weather fetch fails (non-2xx or transport), exactly one GET
\* was attempted, and the /api/weather or /api/predict request is answered
\* with HTTP 500 carrying a message.
C5_FetchFailureIsOneGetAnd500 ==
    FetchFailed
        => /\ Gets = 1
           /\ Endpoint \in {"weather", "predict"}
                => /\ response.status = 500
                   /\ Len(response.body.detail) > 0
                   /\ \E k \in 1 .. Len(response.body.detail) :
                        response.body.detail[k] = "Failed to fetch weather data"

C5_Witness ==
    /\ Endpoint = "predict"
    /\ FetchFailed /\ Val(upstream.fetch).outcome = "transport"
    /\ response.status = 500

\* C6: GET /api/health always answers successfully; it reports model_loaded
\* false whenever the weight file is absent, also when the predictor cannot
\* be constructed, and true only when the weights were loaded.
C6_HealthReportsModelLoaded ==
    Endpoint = "health"
        => /\ response.status = 200
           /\ response.body.status = "healthy"
           /\ ~files.weights => response.body.model_loaded = FALSE
           /\ ~files.config => response.body.model_loaded = FALSE
           /\ response.body.model_loaded
                => (files.weights /\ predictor /= None /\ Val(predictor).model_loaded)

C6_Witness ==
    /\ Endpoint = "health"
    /\ ~files.weights /\ ~files.config
    /\ predictor = None
    /\ response.status = 200
    /\ response.body.model_loaded = FALSE

\* a response with its timestamp blanked
WithoutTimestamp(r) ==
    IF r.status = 200 THEN [r EXCEPT !.body.timestamp = 0] ELSE r

\* C7 as stated: two consecutive POST /api/predict calls with the same body
\* and the same weather payload return identical responses.
C7_ConsecutiveResponsesIdentical ==
    [][repeated' => response' = response]_vars

\* C7 amended: two consecutive POST /api/predict calls with the same body and
\* the same weather payload return responses that are identical in every
\* field but timestamp.
C7_ConsecutiveResponsesAgreeButTimestamp ==
    [][repeated' => WithoutTimestamp(response') = WithoutTimestamp(response)]_vars

C7_Witness ==
    /\ repeated
    /\ clock > 0
    /\ response.status = 200
    /\ response.body.status = "success"

\* C8: for an hourly payload with n readings, 0 <= n < 168, the prepared
\* sequence has exactly 168 rows, its last n rows are the n readings in
\* order and each of the first 168 - n rows equals the feature vector of the
\* earliest reading; for n >= 168 it has exactly 168 rows too.
C8_PaddedToWindow ==
    input_tensor /= <<>>
        => LET hourly == PayloadSeen.hourly
               n      == Readings(hourly)
           IN  /\ Len(input_array) = 168
               /\ Len(input_tensor) = 168
               /\ n < 168
                    => /\ \A i \in 1 .. n :
                            /\ input_array[168 - n + i] = Features(hourly, i - 1)
                            /\ input_tensor[168 - n + i] = NormalizeRow(Features(hourly, i - 1))
                       /\ n >= 1
                            => \A j \in 1 .. (168 - n) :
                                 /\ input_array[j] = Features(hourly, 0)
                                 /\ input_tensor[j] = input_tensor[168 - n + 1]

C8_Witness ==
    /\ input_tensor /= <<>>
    /\ Readings(PayloadSeen.hourly) = 2
    /\ PayloadSeen.hourly.keys = "all"
    /\ Len(input_tensor) = 168
    /\ input_array[166] = input_array[167]
    /\ input_array[167] /= input_array[168]

\* The reference ranges [lo, hi] of the 7 channels, in thousandths:
\* temperature, humidity, dew point, wind, pressure, cloud cover, VPD.
ReferenceRange ==
    << <<-20000, 50000>>, <<0, 100000>>, <<-30000, 35000>>, <<0, 50000>>,
       <<950000, 1050000>>, <<0, 100000>>, <<0, 4000>> >>

\* C9: the normalized value of a raw value x of a channel with range
\* [lo, hi] is (x - lo) / (hi - lo) clipped to [0, 1]: 0 at and below lo, 1 at
\* and above hi; every entry of the prepared tensor lies in [0, 1].
C9_NormalizedAndClipped ==
    input_tensor /= <<>>
        => \A r \in 1 .. Len(input_tensor), ch \in 1 .. 7 :
              LET x  == input_array[r][ch]
                  lo == ReferenceRange[ch][1]
                  hi == ReferenceRange[ch][2]
                  v  == input_tensor[r][ch]
              IN  /\ v[2] = hi - lo
                  /\ 0 <= v[1] /\ v[1] <= v[2]
                  /\ x <= lo => v[1] = 0
                  /\ x >= hi => v[1] = v[2]
                  /\ (lo <= x /\ x <= hi) => v[1] = x - lo

C9_Witness ==
    /\ input_tensor /= <<>>
    /\ \E r \in 1 .. Len(input_tensor) : input_array[r][1] < -20000 /\ input_tensor[r][1][1] = 0
    /\ \E r \in 1 .. Len(input_tensor) : input_array[r][1] = 50000 /\ input_tensor[r][1][1] = 70000
    /\ \E r \in 1 .. Len(input_tensor) : input_array[r][5] > 1050000
    /\ \E r \in 1 .. Len(input_tensor) : input_array[r][7] > 4000
    /\ \E r \in 1 .. Len(input_tensor) : input_array[r][7] < 0

\* the last request was a predict that returned a forecast
PredictSucceeded ==
    /\ Endpoint = "predict"
    /\ response.status = 200
    /\ response.body.status = "success"

\* C10: in every successful predict result, on the scaler path and on the
\* fallback path, every hourly record has temperature in [-50, 50],
\* relative_humidity in [0, 100] and wind_speed in [0, 100] (units of 10^-5).
C10_ForecastWithinBounds ==
    PredictSucceeded
        => /\ Len(response.body.predictions.hourly) = Len(output)
           /\ \A i \in 1 .. Len(response.body.predictions.hourly) :
                LET h == response.body.predictions.hourly[i]
                IN  /\ -5000000 <= h.temperature /\ h.temperature <= 5000000
                    /\ 0 <= h.relative_humidity /\ h.relative_humidity <= 10000000
                    /\ 0 <= h.wind_speed /\ h.wind_speed <= 10000000

C10_Witness ==
    /\ PredictSucceeded
    /\ IsNone(Val(predictor).scaler)
    /\ \E i \in 1 .. Len(output) :
          /\ output[i][1] > 2000
          /\ response.body.predictions.hourly[i].temperature = 5000000
    /\ \E i \in 1 .. Len(output) :
          /\ output[i][3] < 0
          /\ response.body.predictions.hourly[i].wind_speed = 0

\* a step that handles a request (the other steps only advance the clock)
Handles == clock' = clock

\* the error predict returns under the model_loaded guard (model.py:230-234)
NotLoadedError == [status |-> "error", message |-> "Model not loaded"]

\* C11: over every sequence of requests, at most one predictor is ever
\* constructed; once the global predictor is set it never changes (a loaded
\* predictor stays loaded, a not-loaded one stays not loaded) and the
\* constructor is never run again; and once it is set not loaded, the
\* weight file being missing, every later call of predict returns the
\* "Model not loaded" error, a predict request with a successful fetch
\* always reaching that call.
C11_LoadDecidedOnceAndAbsorbing ==
    [][ Handles =>
          /\ constructed' <= 1
          /\ predictor /= None
                => /\ predictor' = predictor
                   /\ constructions' = <<>>
                   /\ constructed' = constructed
          /\ (predictor /= None /\ ~Val(predictor).model_loaded)
                => /\ ~files.weights
                   /\ prediction' /= None => Val(prediction') = NotLoadedError
                   /\ (Endpoint' = "predict" /\ FetchOk') => prediction' /= None
      ]_vars

\* a later predict request on a predictor whose load failed earlier
C11_Witness ==
    /\ Endpoint = "predict"
    /\ ~files.weights
    /\ predictor /= None /\ ~Val(predictor).model_loaded
    /\ constructed = 1
    /\ constructions = <<>>
    /\ prediction = Some(NotLoadedError)

\* C12: for every hour prepare_input reads, the dew-point feature (channel
\* 3 of the hour's row) equals the hour's apparent temperature when the
\* payload supplies one, and otherwise temperature - (100 - humidity) / 5
\* of the row's temperature and humidity (channels 1 and 2, defaults
\* substituted), whatever their values, 0 included.
C12_DewPointIsProxy ==
    input_array /= <<>>
        => LET hourly == PayloadSeen.hourly
               n      == Min(Readings(hourly), InputWindow)
           IN  \A i \in 0 .. (n - 1) :
                 LET row      == input_array[InputWindow - n + i + 1]
                     apparent == HourlyGet(hourly, "apparent_temperature", i)
                 IN  row[3] = IF apparent /= None
                              THEN Val(apparent)
                              ELSE row[1] - ((100000 - row[2]) \div 5)

=============================================================================
